---- MODULE Spec2Model ----
(***************************************************************************)
(* Model of cdk_workshop/pipeline_stack.py: the assembly of the delivery   *)
(* pipeline by PipelineStack.__init__ and create_code_quality_steps, and   *)
(* the run of the pipeline they describe (steps gated by Synth, build      *)
(* jobs running install commands then run commands in one shell).         *)
(***************************************************************************)
EXTENDS Integers, Sequences, FiniteSets, TLC

VARIABLES
    ctx,                \* the app's context (cdk.json / -c key=value)
    pc,                 \* pc[r]: position of run r in PipelineStack.__init__
    environment_type,   \* environment_type[r]: local of __init__ (line 25)
    context,            \* context[r]: self.context (line 26)
    source_stage,       \* source_stage[r]: self.source_stage, an object id
    heap,               \* the source objects constructed so far, by id
    pipeline,           \* pipeline[r]: <<>> or <<the CodePipeline of run r>>
    quality_steps,      \* quality_steps[r]: local of __init__ (line 56)
    execution,          \* "none", "running": a run of run 1's pipeline
    faults,             \* the command sites whose program exits non-zero
    status,             \* status[n]: state of node n of the running pipeline
    job,                \* the step whose build job is observed, or ""
    jpc,                \* index of the job's next command in its buildspec
    shell,              \* names of the variables defined in the job's shell
    log,                \* the commands the job has executed, with exits
    jstatus             \* "none", "running", "passed", "failed"

vars == <<ctx, pc, environment_type, context, source_stage, heap, pipeline,
          quality_steps, execution, faults, status, job, jpc, shell, log,
          jstatus>>

asmVars == <<pc, environment_type, context, source_stage, heap, pipeline,
             quality_steps>>
runVars == <<execution, faults, status>>
jobVars == <<job, jpc, shell, log, jstatus>>

\* Two synthesis runs of the app against the same context.
Runs == {1, 2}

Range(s) == {s[i] : i \in DOMAIN s}

(***************************************************************************)
(* Python values read from the context: None, str, dict.                   *)
(***************************************************************************)
PyNone == [t |-> "none"]
Str(s) == [t |-> "str", s |-> s]
Dict(d) == [t |-> "dict", d |-> d]
EmptyMap == [k \in {} |-> PyNone]

\* Python truthiness, as used by `or`.
Truthy(v) ==
    CASE v.t = "none" -> FALSE
      [] v.t = "str"  -> v.s # ""
      [] v.t = "dict" -> DOMAIN v.d # {}

\* a or b
PyOr(a, b) == IF Truthy(a) THEN a ELSE b

\* v[k] succeeds (None[k] raises TypeError, a missing key raises KeyError,
\* a str subscripted by a str raises TypeError).
CanSubscript(v, k) == v.t = "dict" /\ k \in DOMAIN v.d

\* v[path[1]][path[2]]... succeeds.
RECURSIVE CanIndex(_, _)
CanIndex(v, path) ==
    IF path = <<>> THEN TRUE
    ELSE CanSubscript(v, Head(path)) /\ CanIndex(v.d[Head(path)], Tail(path))

RECURSIVE Index(_, _)
Index(v, path) ==
    IF path = <<>> THEN v ELSE Index(v.d[Head(path)], Tail(path))

LookupOrDefault(v, path) ==
    IF CanIndex(v, path) THEN [ok |-> TRUE, v |-> Index(v, path)]
    ELSE [ok |-> TRUE, v |-> Str("default")]

\* Evaluation of v[path[1]][path[2]]...: the value, or an exception raised.
Lookup(v, path) ==
    IF CanIndex(v, path) THEN [ok |-> TRUE, v |-> Index(v, path)]
    ELSE [ok |-> FALSE, v |-> PyNone]

\* self.node.try_get_context(key): None when the key is not in the context.
try_get_context(c, key) ==
    IF key \in DOMAIN c THEN c[key] ELSE PyNone

(***************************************************************************)
(* The contexts the app is synthesized with.                               *)
(***************************************************************************)
Repository(withName, withBranch) ==
    Dict([k \in ((IF withName THEN {"name"} ELSE {})
                 \cup (IF withBranch THEN {"branch"} ELSE {})) |->
            IF k = "name" THEN Str("acme/app") ELSE Str("main")])

CompleteBundle(tag) ==
    Dict([repository |-> Repository(TRUE, TRUE),
          pipeline   |-> Dict([name |-> Str("acme-" \o tag)])])

Bundles(tag) ==
    { PyNone,
      CompleteBundle(tag),
      Dict([pipeline |-> Dict([name |-> Str("acme-" \o tag)])]),
      Dict([repository |-> Repository(FALSE, TRUE),
            pipeline   |-> Dict([name |-> Str("acme-" \o tag)])]),
      Dict([repository |-> Repository(TRUE, FALSE),
            pipeline   |-> Dict([name |-> Str("acme-" \o tag)])]),
      Dict([repository |-> Repository(TRUE, TRUE)]),
      Dict([repository |-> Repository(TRUE, TRUE),
            pipeline   |-> Dict(EmptyMap)]) }

Overrides == {PyNone, Str(""), Str("qa"), Str("prod"), Str("dev")}

\* A key whose value is None is a key the context does not hold.
MakeContext(o, q, p) ==
    LET all == [environmentType |-> o, qa |-> q, prod |-> p]
    IN  [k \in {k \in DOMAIN all : all[k] # PyNone} |-> all[k]]

Contexts ==
    { MakeContext(o, q, p) :
        o \in Overrides, q \in Bundles("qa"),
        p \in {PyNone, CompleteBundle("prod"),
               Dict([repository |-> Repository(TRUE, TRUE)])} }

(***************************************************************************)
(* Shell command lines.  A command string of the source is kept as the     *)
(* sequence of its shell tokens: words, operators (||, &&, |, >), the      *)
(* NAME= prefix of an assignment, $NAME expansions and the brackets of a   *)
(* command substitution.                                                   *)
(***************************************************************************)
ShellVariables == {"ACCOUNT", "ENV_TYPE", "STACK_NAME", "SECRETS_FOLDER"}

\* The variables a line expands ($NAME).
Refs(line) == {v \in ShellVariables : ("$" \o v) \in Range(line)}

\* The variable a line assigns (a leading NAME=).
Assigns(line) == {v \in ShellVariables : line[1] = (v \o "=")}

TolerantNever(line) == FALSE

\* `cmd || true`: the line exits 0 whatever cmd exits with.
Tolerant(line) ==
    /\ Len(line) >= 2
    /\ line[Len(line) - 1] = "||"
    /\ line[Len(line)] = "true"

\* Exit status of a line whose program exits with status e.
LineExit(line, e) == IF Tolerant(line) THEN 0 ELSE e

(***************************************************************************)
(* Descriptors.                                                            *)
(***************************************************************************)
\* Source.git_hub(repo_string, branch, authentication)
git_hub(repo_string, branch, authentication) ==
    [repo_string |-> repo_string, branch |-> branch,
     authentication |-> authentication]

\* SecretValue.secrets_manager(secret_id)
secrets_manager(secret_id) == [secret_id |-> secret_id]

NoEnv == [v \in {} |-> ""]

\* ShellStep(id, input, env, install_commands, commands)
ShellStep(id, input, env, install_commands, commands) ==
    [kind |-> "ShellStep", id |-> id, input |-> input, env |-> env,
     install_commands |-> install_commands, commands |-> commands,
     dependencies |-> {}]

\* BuildEnvironment(build_image, compute_type, privileged)
BuildEnvironment(build_image, compute_type, privileged) ==
    [build_image |-> build_image, compute_type |-> compute_type,
     privileged |-> privileged]

CodeBuildStepAfterGitSecrets(id, input, build_environment, project_name, install_commands, commands) ==
    [kind |-> "CodeBuildStep", id |-> id, input |-> input, env |-> NoEnv,
     build_environment |-> build_environment, project_name |-> project_name,
     install_commands |-> install_commands, commands |-> commands,
     dependencies |-> {"GitSecrets"} \ {id}]

\* CodeBuildStep(id, input, build_environment, project_name,
\*               install_commands, commands): no env, no step dependency.
CodeBuildStep(id, input, build_environment, project_name, install_commands, commands) ==
    [kind |-> "CodeBuildStep", id |-> id, input |-> input, env |-> NoEnv,
     build_environment |-> build_environment, project_name |-> project_name,
     install_commands |-> install_commands, commands |-> commands,
     dependencies |-> {}]

(***************************************************************************)
(* PipelineStack.__init__, lines 36-54: the Synth step.                    *)
(***************************************************************************)
SynthEnvQa(tag) == [ENV_TYPE |-> "qa"]

\* env={"ENV_TYPE": environment_type}
SynthEnv(tag) == [ENV_TYPE |-> tag]

SynthStep(input, tag) ==
    ShellStep("Synth", input, SynthEnv(tag),
        << <<"npm", "install", "-g", "aws-cdk">>,
           <<"pip3", "install", "-r", "requirements.txt">>,
           <<"pip3", "install", "-r", "requirements-dev.txt">>,
           <<"ACCOUNT=", "$(", "aws", "sts", "get-caller-identity", "|",
             "jq", "-r", ".Account", ")">> >>,
        << <<"cdk", "synth", "-c", "account=", "$ACCOUNT",
             "-c", "environmentType=", "$ENV_TYPE">> >>)

(***************************************************************************)
(* PipelineStack.create_code_quality_steps.                                *)
(***************************************************************************)
install_steps ==
    << <<"npm", "install", "-g", "aws-cdk">>,
       <<"python3", "-m", "venv", ".env">>,
       <<"chmod", "+x", ".env/bin/activate">>,
       <<".", ".env/bin/activate">>,
       <<"pip3", "install", "-r", "requirements.txt">>,
       <<"pip3", "install", "-r", "requirements-dev.txt">> >>

environment == BuildEnvironment("STANDARD_7_0", "SMALL", TRUE)

GitSecretsStep(input) ==
    CodeBuildStep("GitSecrets", input, environment,
        "cdk-pipelines-git-secrets",
        << <<"SECRETS_FOLDER=", "git-secrets">>,
           <<"mkdir", "$SECRETS_FOLDER">>,
           <<"git", "clone", "--quiet",
             "https://github.com/awslabs/git-secrets.git", "$SECRETS_FOLDER">>,
           <<"cd", "$SECRETS_FOLDER">>,
           <<"make", "install">>,
           <<"cd", "..", "&&", "rm", "-rf", "$SECRETS_FOLDER">> >>,
        << <<"git", "secrets", "--register-aws">>,
           <<"git", "secrets", "--scan">>,
           <<"echo", "No", "vulnerabilities", "detected.", "Have", "a",
             "really", "nice", "day!">> >>)

LinterStep(input) ==
    CodeBuildStep("Linter", input, environment, "cdk-pipelines-linter",
        install_steps,
        << <<"python3", "-m", "pylint", "cdk_workshop", "||", "true">>,
           <<"python3", "-m", "pylint", "tests", "||", "true">>,
           <<"python3", "-m", "pylint", "app.py", "||", "true">> >>)

UnitTestsStep(input) ==
    CodeBuildStep("UnitTests", input, environment, "cdk-pipelines-unit-tests",
        install_steps,
        << <<"python3", "-m", "pytest">> >>)

CfnNagStep(input) ==
    CodeBuildStep("CfnNag", input, environment, "cdk-pipelines-cfn-nag",
        install_steps \o << <<"gem", "install", "cfn-nag">> >>,
        << <<"ACCOUNT=", "$(", "aws", "sts", "get-caller-identity", "|",
             "jq", "-r", "'.Account'", ")">>,
           <<"STACK_NAME=", "cdk-pipeline-scan">>,
           <<"cdk", "synth", "$STACK_NAME", "-c", "account=", "$ACCOUNT",
             "-c", "environmentType=", "$ENV_TYPE", ">", "template.yaml">>,
           <<"cfn_nag_scan", "--input-path", "template.yaml">> >>)

DependencyAuditStep(input) ==
    CodeBuildStep("DependencyAudit", input, environment,
        "cdk-pipelines-audit",
        install_steps,
        << <<"safety", "check", "-r", "requirements.txt">>,
           <<"safety", "check", "-r", "requirements-dev.txt">> >>)

\* A `steps=[]` default argument: the list the earlier calls appended to.
StepsListOfEarlierCalls(r) ==
    IF \E q \in Runs \ {r} : quality_steps[q] # <<>>
    THEN quality_steps[CHOOSE q \in Runs \ {r} : quality_steps[q] # <<>>]
    ELSE <<>>

\* steps = []  (line 67): a new list in every call.
NewStepsList(r) == <<>>

StepInputOwnSource(r) == source_stage[r] + 1

\* input=self.source_stage
StepInput(r) == source_stage[r]

\* The list create_code_quality_steps returns in run r.
create_code_quality_steps(r) ==
    NewStepsList(r) \o
    << GitSecretsStep(StepInput(r)),
       LinterStep(StepInput(r)),
       UnitTestsStep(StepInput(r)),
       CfnNagStep(StepInput(r)),
       DependencyAuditStep(StepInput(r)) >>

StageDeploymentAsPost(stage, pre) == [stage |-> stage, pre |-> <<>>, post |-> pre]

\* pipeline.add_stage(stage, pre=...): the stage with its pre steps.
StageDeployment(stage, pre) == [stage |-> stage, pre |-> pre, post |-> <<>>]

(***************************************************************************)
(* PipelineStack.__init__, statement by statement.                         *)
(***************************************************************************)
\* Lines 25-26: resolve the environment tag and its settings bundle.
ResolveEnvironment(r) ==
    /\ pc[r] = "resolve"
    /\ LET tag == PyOr(try_get_context(ctx, "environmentType"), Str("qa"))
       IN  /\ environment_type' = [environment_type EXCEPT ![r] = tag]
           /\ context' = [context EXCEPT ![r] = try_get_context(ctx, tag.s)]
    /\ pc' = [pc EXCEPT ![r] = "source"]
    /\ UNCHANGED <<ctx, source_stage, heap, pipeline, quality_steps>>
    /\ UNCHANGED <<runVars, jobVars>>

\* Lines 29-34: self.source_stage = Source.git_hub(...); a failing
\* subscript of self.context raises.
BindSource(r) ==
    /\ pc[r] = "source"
    /\ IF /\ Lookup(context[r], <<"repository", "name">>).ok
          /\ Lookup(context[r], <<"repository", "branch">>).ok
       THEN /\ heap' = Append(heap,
                  git_hub(Lookup(context[r], <<"repository", "name">>).v.s,
                          Lookup(context[r], <<"repository", "branch">>).v.s,
                          secrets_manager("github-token")))
            /\ source_stage' = [source_stage EXCEPT ![r] = Len(heap) + 1]
            /\ pc' = [pc EXCEPT ![r] = "pipeline"]
       ELSE /\ pc' = [pc EXCEPT ![r] = "raised"]
            /\ UNCHANGED <<heap, source_stage>>
    /\ UNCHANGED <<ctx, environment_type, context, pipeline, quality_steps>>
    /\ UNCHANGED <<runVars, jobVars>>

\* Lines 36-54: pipeline = CodePipeline(..., pipeline_name=..., synth=...);
\* the arguments are evaluated before the constructor is called.
ConstructPipeline(r) ==
    /\ pc[r] = "pipeline"
    /\ IF Lookup(context[r], <<"pipeline", "name">>).ok
       THEN /\ pipeline' = [pipeline EXCEPT ![r] =
                  << [pipeline_name |->
                          Lookup(context[r], <<"pipeline", "name">>).v.s,
                      synth |-> SynthStep(source_stage[r],
                                          environment_type[r].s),
                      stages |-> <<>>] >>]
            /\ pc' = [pc EXCEPT ![r] = "quality"]
       ELSE /\ pc' = [pc EXCEPT ![r] = "raised"]
            /\ UNCHANGED pipeline
    /\ UNCHANGED <<ctx, environment_type, context, source_stage, heap,
                   quality_steps>>
    /\ UNCHANGED <<runVars, jobVars>>

\* Line 56: quality_steps = self.create_code_quality_steps()
CreateCodeQualitySteps(r) ==
    /\ pc[r] = "quality"
    /\ quality_steps' = [quality_steps EXCEPT ![r] = create_code_quality_steps(r)]
    /\ pc' = [pc EXCEPT ![r] = "add_stage"]
    /\ UNCHANGED <<ctx, environment_type, context, source_stage, heap, pipeline>>
    /\ UNCHANGED <<runVars, jobVars>>

\* Lines 57-64: pipeline.add_stage(DeployStage(self, 'QA', "qa"),
\*                                 pre=quality_steps)
AddStage(r) ==
    /\ pc[r] = "add_stage"
    /\ pipeline' = [pipeline EXCEPT ![r] =
          << [pipeline[r][1] EXCEPT !.stages =
                Append(@, StageDeployment(
                    [construct_id |-> "QA", environment_type |-> "qa"],
                    quality_steps[r]))] >>]
    /\ pc' = [pc EXCEPT ![r] = "done"]
    /\ UNCHANGED <<ctx, environment_type, context, source_stage, heap,
                   quality_steps>>
    /\ UNCHANGED <<runVars, jobVars>>

Assemble(r) ==
    \/ ResolveEnvironment(r)
    \/ BindSource(r)
    \/ ConstructPipeline(r)
    \/ CreateCodeQualitySteps(r)
    \/ AddStage(r)

NoStatus == [n \in {} |-> ""]

InitAssembly ==
    /\ ctx \in Contexts
    /\ pc = [r \in Runs |-> "resolve"]
    /\ environment_type = [r \in Runs |-> PyNone]
    /\ context = [r \in Runs |-> PyNone]
    /\ source_stage = [r \in Runs |-> 0]
    /\ heap = <<>>
    /\ pipeline = [r \in Runs |-> <<>>]
    /\ quality_steps = [r \in Runs |-> <<>>]
    /\ execution = "none"
    /\ faults = {}
    /\ status = NoStatus
    /\ job = ""
    /\ jpc = 0
    /\ shell = {}
    /\ log = <<>>
    /\ jstatus = "none"

NextAssembly == \E r \in Runs : Assemble(r)

\* Two synthesis runs assembling the stack from one context.
SpecAssembly == InitAssembly /\ [][NextAssembly]_vars

(***************************************************************************)
(* The run of the described pipeline.  The pipeline of run 1 is the one    *)
(* deployed; its nodes are the Synth step, the steps of each stage and the *)
(* stage's deployment.  Synth gates everything; within a stage the pre     *)
(* steps come before the deployment and the post steps after it; steps of  *)
(* one group run in parallel unless a step names a dependency.             *)
(***************************************************************************)
MaxFaults == 1
MaxExit == 1

ExitCodes == 0..MaxExit

Ids(steps) == {steps[i].id : i \in DOMAIN steps}

StageId(g) == g.stage.construct_id

RECURSIVE StageSteps(_)
StageSteps(stages) ==
    IF stages = <<>> THEN <<>>
    ELSE Head(stages).pre \o Head(stages).post \o StageSteps(Tail(stages))

\* Every step of the pipeline: Synth, then the steps of the stages.
AllSteps(p) == <<p.synth>> \o StageSteps(p.stages)

StepById(p, n) ==
    LET all == AllSteps(p)
    IN  all[CHOOSE i \in DOMAIN all : all[i].id = n]

GateIds(p) == UNION {Ids(p.stages[i].pre) : i \in DOMAIN p.stages}

StageIds(p) == {StageId(p.stages[i]) : i \in DOMAIN p.stages}

Nodes(p) == Ids(AllSteps(p)) \cup StageIds(p)

\* The nodes that must have passed before node n may start.
Requires(p, n) ==
    IF n = p.synth.id THEN {}
    ELSE {p.synth.id} \cup UNION {
            LET g == p.stages[i]
            IN  CASE n = StageId(g)     -> Ids(g.pre)
                  [] n \in Ids(g.pre)   -> StepById(p, n).dependencies
                  [] n \in Ids(g.post)  -> Ids(g.pre) \cup {StageId(g)}
                                           \cup StepById(p, n).dependencies
                  [] OTHER              -> {}
            : i \in DOMAIN p.stages}

BuildSpecRunFirst(step) ==
    [i \in 1..Len(step.commands) |->
        [phase |-> "build", k |-> i, line |-> step.commands[i]]]
    \o [i \in 1..Len(step.install_commands) |->
        [phase |-> "install", k |-> i, line |-> step.install_commands[i]]]

\* The job's buildspec: the install phase, then the build phase.
BuildSpec(step) ==
    [i \in 1..Len(step.install_commands) |->
        [phase |-> "install", k |-> i, line |-> step.install_commands[i]]]
    \o [i \in 1..Len(step.commands) |->
        [phase |-> "build", k |-> i, line |-> step.commands[i]]]

\* A site: <<step id, index in the step's buildspec>>.
Sites(p) ==
    LET all == AllSteps(p)
    IN  UNION {{<<all[j].id, i>> : i \in DOMAIN BuildSpec(all[j])} : j \in DOMAIN all}

RECURSIVE FaultSets(_, _)
FaultSets(sites, k) ==
    IF k = 0 THEN {{}}
    ELSE LET prev == FaultSets(sites, k - 1)
         IN  prev \cup {f \cup {x} : f \in prev, x \in sites}

\* Index of the first line of the buildspec, from i on, that exits
\* non-zero when the programs at the sites f exit 1; 0 when none does.
RECURSIVE FirstFailure(_, _, _, _)
FirstFailure(spec, id, f, i) ==
    IF i > Len(spec) THEN 0
    ELSE IF LineExit(spec[i].line, IF <<id, i>> \in f THEN 1 ELSE 0) # 0
         THEN i
         ELSE FirstFailure(spec, id, f, i + 1)

JobOutcome(step, f) ==
    IF FirstFailure(BuildSpec(step), step.id, f, 1) = 0 THEN "passed" ELSE "failed"

Deployed == pipeline[1][1]

CanStart(n) == \A m \in Requires(Deployed, n) : status[m] = "passed"

\* A push to the source branch starts a run of the registered pipeline.
StartExecution ==
    /\ execution = "none"
    /\ pc[1] = "done"
    /\ \E f \in FaultSets(Sites(Deployed), MaxFaults) : faults' = f
    /\ status' = [n \in Nodes(Deployed) |-> "pending"]
    /\ execution' = "running"
    /\ UNCHANGED <<ctx, asmVars, jobVars>>

StartNode(n) ==
    /\ execution = "running"
    /\ status[n] = "pending"
    /\ CanStart(n)
    /\ status' = [status EXCEPT ![n] = "running"]
    /\ UNCHANGED <<ctx, asmVars, jobVars, execution, faults>>

\* A step ends as its job does; a deployment ends either way.
FinishNode(n) ==
    /\ execution = "running"
    /\ status[n] = "running"
    /\ \E o \in {"passed", "failed"} :
          /\ n \notin StageIds(Deployed) => o = JobOutcome(StepById(Deployed, n), faults)
          /\ status' = [status EXCEPT ![n] = o]
    /\ UNCHANGED <<ctx, asmVars, jobVars, execution, faults>>

\* One synthesis run (run 2 does not take place), then what follows it.
InitOneRun(contexts) ==
    /\ ctx \in contexts
    /\ pc = [r \in Runs |-> IF r = 1 THEN "resolve" ELSE "off"]
    /\ environment_type = [r \in Runs |-> PyNone]
    /\ context = [r \in Runs |-> PyNone]
    /\ source_stage = [r \in Runs |-> 0]
    /\ heap = <<>>
    /\ pipeline = [r \in Runs |-> <<>>]
    /\ quality_steps = [r \in Runs |-> <<>>]
    /\ execution = "none"
    /\ faults = {}
    /\ status = NoStatus
    /\ job = ""
    /\ jpc = 0
    /\ shell = {}
    /\ log = <<>>
    /\ jstatus = "none"

\* The context of the specification's example.
RunContexts == {MakeContext(PyNone, CompleteBundle("qa"), PyNone)}

NextRun ==
    \/ \E r \in Runs : Assemble(r)
    \/ StartExecution
    \/ \E n \in DOMAIN status : StartNode(n)
    \/ \E n \in DOMAIN status : FinishNode(n)

\* The stack is assembled once and its pipeline runs.
InitRun == InitOneRun(RunContexts)

SpecRun == InitRun /\ [][NextRun]_vars

(***************************************************************************)
(* One build job of the pipeline, command by command.  All the commands of *)
(* a job run in one shell, so a variable assigned by a line stays defined  *)
(* for the lines after it; the job's shell starts with the step's env.     *)
(***************************************************************************)
StartJob(s) ==
    /\ jstatus = "none"
    /\ pc[1] = "done"
    /\ job' = s.id
    /\ jpc' = 1
    /\ shell' = DOMAIN s.env
    /\ log' = <<>>
    /\ jstatus' = "running"
    /\ UNCHANGED <<ctx, asmVars, runVars>>

\* The next line of the buildspec runs and its program exits with e; a
\* non-zero exit of the line ends the job.
ExecCommand(e) ==
    /\ jstatus = "running"
    /\ LET spec == BuildSpec(StepById(Deployed, job))
           c == spec[jpc]
           x == LineExit(c.line, e)
       IN  /\ log' = Append(log, [phase |-> c.phase, k |-> c.k, line |-> c.line,
                                  program |-> e, exit |-> x,
                                  undefined |-> Refs(c.line) \ shell])
           /\ shell' = shell \cup Assigns(c.line)
           /\ jstatus' = IF x # 0 THEN "failed"
                         ELSE IF jpc = Len(spec) THEN "passed" ELSE "running"
    /\ jpc' = jpc + 1
    /\ UNCHANGED <<ctx, asmVars, runVars, job>>

JobContexts ==
    { MakeContext(PyNone, CompleteBundle("qa"), PyNone),
      MakeContext(Str("prod"), CompleteBundle("qa"), CompleteBundle("prod")),
      MakeContext(Str("prod"), CompleteBundle("qa"),
                  Dict([repository |-> Repository(TRUE, TRUE)])),
      MakeContext(Str("dev"), CompleteBundle("qa"), PyNone) }

DeployedSteps == IF pc[1] = "done" THEN AllSteps(Deployed) ELSE <<>>

NextJob ==
    \/ \E r \in Runs : Assemble(r)
    \/ \E i \in DOMAIN DeployedSteps : StartJob(DeployedSteps[i])
    \/ \E e \in ExitCodes : ExecCommand(e)

\* The stack is assembled once and one of its build jobs runs.
InitJob == InitOneRun(JobContexts)

SpecJob == InitJob /\ [][NextJob]_vars

(***************************************************************************)
(* Properties.                                                             *)
(***************************************************************************)
GateNames == <<"GitSecrets", "Linter", "UnitTests", "CfnNag", "DependencyAudit">>

\* C1: the assembled pipeline has exactly one Synth step and exactly one
\* deployment stage; in a run, no quality-gate step has started unless
\* Synth has passed, and the deployment has not started unless Synth and
\* every step returned by create_code_quality_steps have passed.
C1_SynthGatesDeployOrder ==
    pc[1] = "done" =>
        LET p == Deployed
            all == AllSteps(p)
        IN  /\ Cardinality({i \in DOMAIN all : all[i].id = "Synth"}) = 1
            /\ p.synth.id = "Synth"
            /\ Len(p.stages) = 1
            /\ execution = "running" =>
                /\ \A n \in Ids(quality_steps[1]) :
                      status[n] # "pending" => status["Synth"] = "passed"
                /\ \A g \in StageIds(p) :
                      status[g] # "pending" =>
                        /\ status["Synth"] = "passed"
                        /\ \A n \in Ids(quality_steps[1]) : status[n] = "passed"

\* C1 witness: the deployment has started in a run.
C1_Witness ==
    /\ execution = "running"
    /\ status["QA"] = "running"
    /\ \A i \in DOMAIN GateNames : status[GateNames[i]] = "passed"

\* The result of step n as the exit statuses alone decide it.
ExpectedOutcome(n) ==
    LET spec == BuildSpec(StepById(Deployed, n))
    IN  IF \E i \in DOMAIN spec : <<n, i>> \in faults /\ ~Tolerant(spec[i].line)
        THEN "failed" ELSE "passed"

\* C7: whatever the order in which the five gate steps start and end, each
\* ends with the result its own commands' exit statuses decide, none waits
\* for another, and the deployment may start exactly when all five pass.
C7_GatesIndependent ==
    execution = "running" =>
        LET gates == Ids(quality_steps[1])
        IN  /\ \A n \in gates :
                /\ status[n] \in {"passed", "failed"} => status[n] = ExpectedOutcome(n)
                /\ (status["Synth"] = "passed" /\ status[n] = "pending") => CanStart(n)
            /\ status["QA"] # "pending" => \A n \in gates : ExpectedOutcome(n) = "passed"
            /\ (status["Synth"] = "passed" /\ \A n \in gates : status[n] = "passed")
                  => (status["QA"] # "pending" \/ CanStart("QA"))

\* C7 witness: all five gates have ended, the first of the list failed and
\* the others passed.
C7_Witness ==
    /\ execution = "running"
    /\ status["GitSecrets"] = "failed"
    /\ \A i \in 2..5 : status[GateNames[i]] = "passed"
    /\ status["QA"] = "pending"

\* C8: a job executes the step's install commands in list order, then its
\* run commands in list order, and executes nothing after a line that
\* exited non-zero: such a line is the last one and the job has failed.
C8_InstallThenRunAbortOnFailure ==
    jstatus # "none" =>
        LET step == StepById(Deployed, job)
            ni == Len(step.install_commands)
        IN  /\ Len(log) <= ni + Len(step.commands)
            /\ \A i \in DOMAIN log :
                /\ IF i <= ni
                   THEN log[i].phase = "install" /\ log[i].line = step.install_commands[i]
                   ELSE log[i].phase = "build" /\ log[i].line = step.commands[i - ni]
                /\ (log[i].program # 0 /\ ~Tolerant(log[i].line)) =>
                      (i = Len(log) /\ jstatus = "failed")
            /\ jstatus = "passed" => Len(log) = ni + Len(step.commands)

\* C8 witness: a job failed in its second run command, after every install
\* command and the first run command.
C8_Witness ==
    /\ jstatus = "failed"
    /\ job = "DependencyAudit"
    /\ Len(log) = 8
    /\ log[8].phase = "build"

\* C2: the three run commands of Linter, and no run command of another
\* step, are exit-suppressed; a program of a Linter run command exiting
\* non-zero does not fail the job, one of any other step's run command does.
C2_OnlyLinterTolerant ==
    /\ pc[1] = "done" =>
         LET all == AllSteps(Deployed)
         IN  /\ \A j \in DOMAIN all : \A i \in DOMAIN all[j].commands :
                    Tolerant(all[j].commands[i]) <=> all[j].id = "Linter"
             /\ \A j \in DOMAIN all : all[j].id = "Linter" => Len(all[j].commands) = 3
    /\ \A i \in DOMAIN log :
         (log[i].phase = "build" /\ log[i].program # 0) =>
            IF job = "Linter"
            THEN log[i].exit = 0 /\ (i = Len(log) => jstatus # "failed")
            ELSE i = Len(log) /\ jstatus = "failed"

\* C2 witness: the Linter job passed though the programs of all three of
\* its run commands exited non-zero.
C2_Witness ==
    /\ job = "Linter"
    /\ jstatus = "passed"
    /\ \A i \in 7..9 : log[i].program # 0

\* C10: every variable a command expands is defined when the command runs.
C10_VariablesDefined == \A i \in DOMAIN log : log[i].undefined = {}

\* The bundle holds repository.name, repository.branch and pipeline.name.
Complete(b) ==
    /\ b.t = "dict"
    /\ {"repository", "pipeline"} \subseteq DOMAIN b.d
    /\ b.d.repository.t = "dict"
    /\ {"name", "branch"} \subseteq DOMAIN b.d.repository.d
    /\ b.d.pipeline.t = "dict"
    /\ "name" \in DOMAIN b.d.pipeline.d

\* The resolved tag of run r has no bundle, or an incomplete one.
BadConfiguration(r) ==
    LET tag == environment_type[r].s
    IN  tag \notin DOMAIN ctx \/ ~Complete(ctx[tag])

\* C3: when the resolved tag has no bundle or the bundle lacks
\* repository.name, repository.branch or pipeline.name, the run never gets
\* past the construction of the pipeline: no CodePipeline exists and
\* add_stage is not reached.
C3_FailsBeforeRegistration ==
    \A r \in Runs :
        (pc[r] \notin {"resolve", "off"} /\ BadConfiguration(r)) =>
            /\ pipeline[r] = <<>>
            /\ pc[r] \in {"source", "pipeline", "raised"}

\* C3 witness: a run raised on pipeline.name, after the source was bound.
C3_Witness ==
    \E r \in Runs :
        /\ pc[r] = "raised"
        /\ source_stage[r] # 0
        /\ BadConfiguration(r)
        /\ pipeline[r] = <<>>

\* C4: the environment_type of the deployment stage is the resolved tag.
C4_StageUsesResolvedTag ==
    \A r \in Runs :
        pc[r] = "done" =>
            \A i \in DOMAIN pipeline[r][1].stages :
                pipeline[r][1].stages[i].stage.environment_type = environment_type[r].s

\* C5: create_code_quality_steps returns five steps, GitSecrets, Linter,
\* UnitTests, CfnNag, DependencyAudit in this order, whose input is the
\* source object of self.source_stage, which is also the input of Synth.
C5_FiveStepsOneSource ==
    \A r \in Runs :
        pc[r] \in {"add_stage", "done"} =>
            /\ [i \in DOMAIN quality_steps[r] |-> quality_steps[r][i].id] = GateNames
            /\ source_stage[r] \in DOMAIN heap
            /\ pipeline[r][1].synth.input = source_stage[r]
            /\ \A i \in DOMAIN quality_steps[r] :
                  quality_steps[r][i].input = source_stage[r]

\* C5 witness: the steps were returned under the prod override.
C5_Witness ==
    \E r \in Runs :
        /\ pc[r] = "add_stage"
        /\ environment_type[r] = Str("prod")
        /\ Len(quality_steps[r]) = 5

\* What follows the tag in a run: bundle, pipeline name, ENV_TYPE of Synth.
TagIsUsed(r, tag) ==
    /\ environment_type[r] = Str(tag)
    /\ context[r] = (IF tag \in DOMAIN ctx THEN ctx[tag] ELSE PyNone)
    /\ pipeline[r] # <<>> =>
          /\ pipeline[r][1].pipeline_name = ctx[tag].d.pipeline.d.name.s
          /\ pipeline[r][1].synth.env = [ENV_TYPE |-> tag]

\* C6: the tag is the value of environmentType when the key is present and
\* "qa" when it is absent; bundle, pipeline name and ENV_TYPE follow it.
C6_TagIsOverrideWhenPresent ==
    \A r \in Runs :
        pc[r] \notin {"resolve", "off"} =>
            TagIsUsed(r, IF "environmentType" \in DOMAIN ctx
                         THEN ctx.environmentType.s ELSE "qa")

\* C6, amended: the tag is the value of environmentType when the key is
\* present with a non-empty value and "qa" when it is absent or empty;
\* bundle, pipeline name and ENV_TYPE follow it.
C6_TagIsOverrideWhenNonEmpty ==
    \A r \in Runs :
        pc[r] \notin {"resolve", "off"} =>
            TagIsUsed(r, IF "environmentType" \in DOMAIN ctx /\ ctx.environmentType.s # ""
                         THEN ctx.environmentType.s ELSE "qa")

\* C6 witness: under the prod override the pipeline is named by the prod
\* bundle, though a qa bundle exists.
C6_Witness ==
    \E r \in Runs :
        /\ pc[r] = "done"
        /\ {"qa", "environmentType"} \subseteq DOMAIN ctx
        /\ ctx.environmentType = Str("prod")
        /\ pipeline[r][1].pipeline_name = "acme-prod"

\* The definition of run r with each input replaced by the source it names.
RECURSIVE Resolved(_)
Resolved(steps) ==
    IF steps = <<>> THEN <<>>
    ELSE <<[Head(steps) EXCEPT !.input = heap[@]]>> \o Resolved(Tail(steps))

Structure(r) ==
    LET p == pipeline[r][1]
    IN  [pipeline_name |-> p.pipeline_name,
         synth |-> Resolved(<<p.synth>>),
         stages |-> [i \in DOMAIN p.stages |->
                        [stage |-> p.stages[i].stage,
                         pre |-> Resolved(p.stages[i].pre),
                         post |-> Resolved(p.stages[i].post)]]]

\* C9: two runs against the same context that both complete hold
\* structurally identical pipeline definitions, and a run fails only when
\* the other cannot complete either.
C9_AssemblyDeterministic ==
    /\ (pc[1] = "done" /\ pc[2] = "done") => Structure(1) = Structure(2)
    /\ ~(pc[1] = "done" /\ pc[2] = "raised")
    /\ ~(pc[1] = "raised" /\ pc[2] = "done")

\* C9 witness: both runs completed, each with a source object of its own.
C9_Witness ==
    /\ pc[1] = "done"
    /\ pc[2] = "done"
    /\ source_stage[1] # source_stage[2]
    /\ Len(pipeline[2][1].stages[1].pre) = 5

====
